---------------------------- MODULE Spec2Model ----------------------------
(***************************************************************************)
(* Tabungan Bersama: a shared savings ledger for two users.                *)
(*                                                                         *)
(* The ledger store is the PostgreSQL schema of the migration (tables      *)
(* profiles and savings, their constraints and row-level-security          *)
(* policies).  The ledger client is the React component SavingsTracker      *)
(* (loadData, handleAddSaving, handleDeleteSaving, handleLogout and the     *)
(* aggregation functions), mounted by App while App holds a session.       *)
(*                                                                         *)
(* Text is modelled as a sequence of one-character strings.  A JavaScript  *)
(* number is an integer rounded to MantissaBits significant bits (IEEE-754 *)
(* binary64 rounds to 53 bits, round-half-to-even; the rounding rule is    *)
(* kept and the width is scaled down to what TLC's integers can hold).     *)
(* A nullable value is a sequence of length 0 (null) or 1.                 *)
(***************************************************************************)
EXTENDS Integers, Sequences, FiniteSets, TLC

VARIABLES
    \* ---- ledger store (migration) and auth provider
    authUsers,      \* auth.users: the accounts that exist
    profilesTable,  \* TABLE profiles, rows in created_at order
    savingsTable,   \* TABLE savings, rows in created_at order
    nextId,         \* stands for gen_random_uuid(): ids are never reused
    lastOp,         \* the statement issued by the step that led here and its outcome, or NoOp
    \* ---- the browser's supabase client and App
    session,        \* identity of the supabase client's session, or None
    authEvents,     \* how many times the session has started, ended or changed
    appSession,     \* App: useState session, as App reads it: is there a session object
    appLoading,     \* App: useState loading
    \* ---- SavingsTracker component state
    currentUser,    \* Profile | null
    profiles,       \* Profile[]
    savings,        \* Saving[]
    amount,         \* text of the amount field
    description,    \* text of the description field
    loading,        \* boolean
    loads,          \* the loadData() calls in flight, oldest first
    shown           \* the totals card: <<>>, or <<the values of the aggregation functions>>

storeVars  == <<authUsers, profilesTable, savingsTable, nextId>>
authVars   == <<session, authEvents, appSession, appLoading>>
hostVars   == <<session, authEvents, appSession, appLoading, shown>>
localVars  == <<currentUser, profiles, savings, amount, description, loading>>
clientVars == <<session, authEvents, appSession, appLoading, currentUser, profiles, savings,
                amount, description, loading, loads, shown>>
vars == <<authUsers, profilesTable, savingsTable, nextId, lastOp,
          session, authEvents, appSession, appLoading, currentUser, profiles, savings,
          amount, description, loading, loads, shown>>

-----------------------------------------------------------------------------
(* Bounds *)

MaxSavings == 2         \* savings rows ever inserted in one behaviour
MaxLoads == 2           \* loadData() calls in flight at once
MaxAuthEvents == 2      \* session starts, ends and changes in one behaviour
MantissaBits == 3       \* significant bits of a JavaScript number in the model
MaxRows == 3            \* rows of a savings list given to the aggregation functions

Users == {"U1", "U2"}
None  == "none"
Callers == Users \cup {None}
\* name of a raw request: null, or a text
RawNames == {<<>>, <<"Alice">>}

-----------------------------------------------------------------------------
(* Sequences *)

Range(s) == {s[i] : i \in 1..Len(s)}

RECURSIVE Reverse(_)
Reverse(s) == IF s = <<>> THEN <<>> ELSE Append(Reverse(Tail(s)), Head(s))

RECURSIVE Pow2(_)
Pow2(n) == IF n = 0 THEN 1 ELSE 2 * Pow2(n - 1)


-----------------------------------------------------------------------------
(* JavaScript numbers and text *)

\* Spacing of the representable numbers around magnitude n.
RECURSIVE Ulp(_)
Ulp(n) == IF n < Pow2(MantissaBits) THEN 1 ELSE 2 * Ulp(n \div 2)

\* Magnitude n rounded to the nearest representable number, ties to even.
RoundMag(n) ==
    LET u == Ulp(n)
        q == n \div u
        r == n % u
    IN  IF 2 * r < u THEN q * u
        ELSE IF 2 * r > u THEN (q + 1) * u
        ELSE IF q % 2 = 0 THEN q * u ELSE (q + 1) * u

\* The Number nearest to the mathematical integer n.
ToNumber(n) == IF n < 0 THEN 0 - RoundMag(0 - n) ELSE RoundMag(n)

\* a + b on Numbers.
NumAdd(a, b) == ToNumber(a + b)

DigitChars == <<"0", "1", "2", "3", "4", "5", "6", "7", "8", "9">>
IsDigit(c) == \E i \in 1..10 : DigitChars[i] = c
DigitVal(c) == (CHOOSE i \in 1..10 : DigitChars[i] = c) - 1

RECURSIVE SkipSpaces(_)
SkipSpaces(s) == IF s # <<>> /\ Head(s) = " " THEN SkipSpaces(Tail(s)) ELSE s

\* The longest prefix of s made of digits.
RECURSIVE DigitPrefix(_)
DigitPrefix(s) == IF s # <<>> /\ IsDigit(Head(s))
                  THEN <<Head(s)>> \o DigitPrefix(Tail(s)) ELSE <<>>

RECURSIVE DigitsValue(_, _)
DigitsValue(s, acc) == IF s = <<>> THEN acc
                       ELSE DigitsValue(Tail(s), 10 * acc + DigitVal(Head(s)))

\* parseFloat(text): leading white space is skipped, then an optional sign and
\* the longest run of digits are read and whatever follows is ignored; NaN when
\* there is no digit.  The result is <<number>>, or <<>> for NaN (which
\* JSON.stringify sends as null).  The texts of the model have no fraction.
parseFloat(text) ==
    LET t    == SkipSpaces(text)
        neg  == t # <<>> /\ Head(t) = "-"
        body == IF t # <<>> /\ Head(t) \in {"-", "+"} THEN Tail(t) ELSE t
        ds   == DigitPrefix(body)
    IN  IF ds = <<>> THEN <<>>
        ELSE <<ToNumber(IF neg THEN 0 - DigitsValue(ds, 0) ELSE DigitsValue(ds, 0))>>

\* e.target.value of <input type="number">: the text when it is a valid
\* number (an optional "-" and digits), the empty string otherwise.
NumberInputValue(raw) ==
    LET body == IF raw # <<>> /\ Head(raw) = "-" THEN Tail(raw) ELSE raw
    IN  IF body # <<>> /\ DigitPrefix(body) = body THEN raw ELSE <<>>

\* String.prototype.trim
trim(text) == Reverse(SkipSpaces(Reverse(SkipSpaces(text))))

(* Inputs *)
BigAmount == Pow2(MantissaBits)
AmountTexts == {<<>>, <<"x">>, <<"0">>, <<"-", "1">>, <<"1">>}
DescriptionTexts == {<<>>, <<" ", "g", " ">>}
\* amount of a raw request: null, or a number
RawAmounts == {<<>>, <<0 - 1>>, <<0>>, <<1>>, <<BigAmount>>}

-----------------------------------------------------------------------------
(* Ledger store: rows, constraints and row-level-security policies *)

Profile(id, name) == [id |-> id, name |-> name]
Saving(id, user_id, amt, desc) ==
    [id |-> id, user_id |-> user_id, amount |-> amt, description |-> desc]

ProfileIds == {p.id : p \in Range(profilesTable)}
SavingIds  == {r.id : r \in Range(savingsTable)}

\* (mutant: the policies apply to every role)
Authenticated_Anyone(c) == TRUE

\* TO authenticated: the request carries a signed-in user's token; uid is c.
Authenticated(c) == c \in Users

\* POLICY "Users can view all profiles"
ProfilesSelectUsing(c, row) == Authenticated(c) /\ TRUE
\* POLICY "Users can update own profile"
ProfilesUpdateUsing(c, row) == Authenticated(c) /\ c = row.id
\* (mutant: WITH CHECK does not compare id)
ProfilesUpdateCheck_NoOwner(c, row) == Authenticated(c)
ProfilesUpdateCheck(c, row) == Authenticated(c) /\ c = row.id
\* POLICY "Users can insert own profile"
ProfilesInsertCheck(c, row) == Authenticated(c) /\ c = row.id

\* (mutant: a caller sees only its own savings)
SavingsSelectUsing_OwnOnly(c, row) == Authenticated(c) /\ c = row.user_id
\* POLICY "Authenticated users can view all savings"
SavingsSelectUsing(c, row) == Authenticated(c) /\ TRUE
\* (mutant: WITH CHECK does not compare user_id)
SavingsInsertCheck_NoOwner(c, row) == Authenticated(c)
\* POLICY "Users can insert own savings"
SavingsInsertCheck(c, row) == Authenticated(c) /\ c = row.user_id
\* POLICY "Users can update own savings"
SavingsUpdateUsing(c, row) == Authenticated(c) /\ c = row.user_id
\* (mutant: WITH CHECK does not compare user_id)
SavingsUpdateCheck_NoOwner(c, row) == Authenticated(c)
SavingsUpdateCheck(c, row) == Authenticated(c) /\ c = row.user_id
\* (mutant: USING does not compare user_id)
SavingsDeleteUsing_NoOwner(c, row) == Authenticated(c)
\* POLICY "Users can delete own savings"
SavingsDeleteUsing(c, row) == Authenticated(c) /\ c = row.user_id

\* TABLE profiles: id PRIMARY KEY REFERENCES auth.users(id), name NOT NULL.
\* others: the ids of the other rows of the table; name is <<>> for null.
ProfilesConstraints(id, name, others) ==
    /\ id \notin others
    /\ id \in authUsers
    /\ name # <<>>

\* (mutant: CHECK (amount >= 0))
SavingsConstraints_NonNegative(user_id, amt) ==
    /\ user_id \in ProfileIds
    /\ amt # <<>>
    /\ amt[1] >= 0

\* TABLE savings: user_id NOT NULL REFERENCES profiles(id),
\* amount NOT NULL CHECK (amount > 0).  amt is <<>> for null.
SavingsConstraints(user_id, amt) ==
    /\ user_id \in ProfileIds
    /\ amt # <<>>
    /\ amt[1] > 0

\* SELECT * FROM profiles ORDER BY created_at, as caller c sees it
SelectProfiles(c) ==
    SelectSeq(profilesTable, LAMBDA row : ProfilesSelectUsing(c, row))

\* SELECT * FROM profiles WHERE id = id, as caller c sees it (zero or one row)
SelectProfileById(c, id) ==
    SelectSeq(profilesTable, LAMBDA row : ProfilesSelectUsing(c, row) /\ row.id = id)

\* (mutant: the query returns the oldest row only)
SelectSavings_Limit1(c) ==
    LET rows == SelectSeq(savingsTable, LAMBDA row : SavingsSelectUsing(c, row))
    IN  IF rows = <<>> THEN <<>> ELSE <<rows[1]>>

\* SELECT * FROM savings ORDER BY created_at DESC, as caller c sees it
SelectSavings(c) ==
    Reverse(SelectSeq(savingsTable, LAMBDA row : SavingsSelectUsing(c, row)))

\* What a statement did: the outcome the caller gets (error, number of rows
\* affected or returned) with the request it answers.
Op(via, op, table, c, id, user_id, amt, error, count) ==
    [via |-> via, op |-> op, table |-> table, caller |-> c, id |-> id,
     user_id |-> user_id, amount |-> amt, error |-> error, count |-> count]

NoOp == Op("init", "none", "none", None, 0, None, <<>>, FALSE, 0)

\* INSERT INTO savings (user_id, amount, description): the row is written
\* when the policy's WITH CHECK and the table's constraints accept it, and the
\* statement fails as a whole otherwise.
InsertSaving(via, c, user_id, amt, desc) ==
    LET ok == /\ SavingsInsertCheck(c, [user_id |-> user_id])
              /\ SavingsConstraints(user_id, amt)
    IN  /\ ok => nextId <= MaxSavings
        /\ savingsTable' = IF ok THEN Append(savingsTable, Saving(nextId, user_id, amt[1], desc))
                           ELSE savingsTable
        /\ nextId' = IF ok THEN nextId + 1 ELSE nextId
        /\ lastOp' = Op(via, "insert", "savings", c, IF ok THEN nextId ELSE 0,
                        user_id, amt, ~ok, IF ok THEN 1 ELSE 0)
        /\ UNCHANGED <<authUsers, profilesTable>>

\* (mutant: a delete of a row the policy hides is an error)
DeleteSaving_DeniedIsError(via, c, id) ==
    LET hit(row) == row.id = id /\ SavingsSelectUsing(c, row) /\ SavingsDeleteUsing(c, row)
        gone == {row \in Range(savingsTable) : hit(row)}
    IN  /\ savingsTable' = SelectSeq(savingsTable, LAMBDA row : ~hit(row))
        /\ lastOp' = Op(via, "delete", "savings", c, id, None, <<>>,
                        gone = {} /\ id \in SavingIds, Cardinality(gone))
        /\ UNCHANGED <<authUsers, profilesTable, nextId>>

\* (mutant: a delete that finds no row is an error)
DeleteSaving_MissingIsError(via, c, id) ==
    LET hit(row) == row.id = id /\ SavingsSelectUsing(c, row) /\ SavingsDeleteUsing(c, row)
        gone == {row \in Range(savingsTable) : hit(row)}
    IN  /\ savingsTable' = SelectSeq(savingsTable, LAMBDA row : ~hit(row))
        /\ lastOp' = Op(via, "delete", "savings", c, id, None, <<>>, gone = {},
                        Cardinality(gone))
        /\ UNCHANGED <<authUsers, profilesTable, nextId>>

\* DELETE FROM savings WHERE id = id: removes the rows the policy's USING
\* lets the caller see; a row it hides is not an error.
DeleteSaving(via, c, id) ==
    LET hit(row) == row.id = id /\ SavingsSelectUsing(c, row) /\ SavingsDeleteUsing(c, row)
        gone == {row \in Range(savingsTable) : hit(row)}
    IN  /\ savingsTable' = SelectSeq(savingsTable, LAMBDA row : ~hit(row))
        /\ lastOp' = Op(via, "delete", "savings", c, id, None, <<>>, FALSE,
                        Cardinality(gone))
        /\ UNCHANGED <<authUsers, profilesTable, nextId>>

\* UPDATE savings SET user_id = user_id, amount = amt WHERE id = id: applies
\* to the rows USING lets the caller see; the new row must pass WITH CHECK and
\* the constraints, or the statement fails as a whole.
UpdateSaving(via, c, id, user_id, amt) ==
    LET hit(row) == row.id = id /\ SavingsSelectUsing(c, row) /\ SavingsUpdateUsing(c, row)
        any == \E row \in Range(savingsTable) : hit(row)
        ok  == /\ SavingsUpdateCheck(c, [user_id |-> user_id])
               /\ SavingsConstraints(user_id, amt)
        new(row) == IF hit(row) THEN [row EXCEPT !.user_id = user_id, !.amount = amt[1]]
                    ELSE row
    IN  /\ savingsTable' = IF any /\ ok
                           THEN [i \in 1..Len(savingsTable) |-> new(savingsTable[i])]
                           ELSE savingsTable
        /\ lastOp' = Op(via, "update", "savings", c, id, user_id, amt, any /\ ~ok,
                        IF any /\ ok THEN 1 ELSE 0)
        /\ UNCHANGED <<authUsers, profilesTable, nextId>>

\* INSERT INTO profiles (id, name)
InsertProfile(via, c, id, name) ==
    LET ok == /\ ProfilesInsertCheck(c, [id |-> id])
              /\ ProfilesConstraints(id, name, ProfileIds)
    IN  /\ profilesTable' = IF ok THEN Append(profilesTable, Profile(id, name[1]))
                            ELSE profilesTable
        /\ lastOp' = Op(via, "insert", "profiles", c, 0, id, <<>>, ~ok,
                        IF ok THEN 1 ELSE 0)
        /\ UNCHANGED <<authUsers, savingsTable, nextId>>

\* UPDATE profiles SET id = newId, name = name WHERE id = id.  savings.user_id
\* references profiles(id) with no ON UPDATE action: a referenced id cannot change.
UpdateProfile(via, c, id, newId, name) ==
    LET hit(row) == row.id = id /\ ProfilesSelectUsing(c, row) /\ ProfilesUpdateUsing(c, row)
        any == \E row \in Range(profilesTable) : hit(row)
        referenced == \E r \in Range(savingsTable) : r.user_id = id
        ok  == /\ ProfilesUpdateCheck(c, [id |-> newId])
               /\ ProfilesConstraints(newId, name, ProfileIds \ {id})
               /\ (newId # id => ~referenced)
    IN  /\ profilesTable' = IF any /\ ok
                            THEN [i \in 1..Len(profilesTable) |->
                                    IF hit(profilesTable[i]) THEN Profile(newId, name[1])
                                    ELSE profilesTable[i]]
                            ELSE profilesTable
        /\ lastOp' = Op(via, "update", "profiles", c, 0, newId, <<>>, any /\ ~ok,
                        IF any /\ ok THEN 1 ELSE 0)
        /\ UNCHANGED <<authUsers, savingsTable, nextId>>

\* DELETE FROM profiles WHERE id = id: row-level security is enabled and the
\* table has no policy FOR DELETE, so the statement applies to no row.
ProfilesDeleteUsing(c, row) == FALSE

DeleteProfile(via, c, id) ==
    LET hit(row) == row.id = id /\ ProfilesSelectUsing(c, row) /\ ProfilesDeleteUsing(c, row)
        gone == {row.id : row \in {x \in Range(profilesTable) : hit(x)}}
    IN  /\ profilesTable' = SelectSeq(profilesTable, LAMBDA row : ~hit(row))
        /\ savingsTable' = SelectSeq(savingsTable, LAMBDA row : row.user_id \notin gone)
        /\ lastOp' = Op(via, "delete", "profiles", c, 0, id, <<>>, FALSE, Cardinality(gone))
        /\ UNCHANGED <<authUsers, nextId>>

\* (mutant: savings.user_id REFERENCES profiles(id) without ON DELETE CASCADE,
\* and the reference is not checked)
DeleteAuthUser_NoCascade(u) ==
    /\ u \in authUsers
    /\ authUsers' = authUsers \ {u}
    /\ profilesTable' = SelectSeq(profilesTable, LAMBDA row : row.id # u)
    /\ savingsTable' = savingsTable
    /\ lastOp' = Op("auth", "delete", "users", None, 0, u, <<>>, FALSE,
                    Cardinality({row \in Range(savingsTable) : row.user_id = u}))
    /\ UNCHANGED nextId

\* The auth provider removes account u: profiles.id REFERENCES auth.users(id)
\* ON DELETE CASCADE, savings.user_id REFERENCES profiles(id) ON DELETE CASCADE.
\* count: the savings the cascade removes.
DeleteAuthUser(u) ==
    /\ u \in authUsers
    /\ authUsers' = authUsers \ {u}
    /\ profilesTable' = SelectSeq(profilesTable, LAMBDA row : row.id # u)
    /\ savingsTable' = SelectSeq(savingsTable, LAMBDA row : row.user_id # u)
    /\ lastOp' = Op("auth", "delete", "users", None, 0, u, <<>>, FALSE,
                    Cardinality({row \in Range(savingsTable) : row.user_id = u}))
    /\ UNCHANGED nextId

-----------------------------------------------------------------------------
(* Other clients of the store: any holder of the public key can send any   *)
(* statement, signed in as a user or not.                                  *)

RawInsertSaving ==
    /\ \E c \in Callers, u \in Users, a \in RawAmounts :
          InsertSaving("raw", c, u, a, <<>>)
    /\ UNCHANGED clientVars

RawDeleteSaving ==
    /\ \E c \in Callers, id \in 1..MaxSavings : DeleteSaving("raw", c, id)
    /\ UNCHANGED clientVars

RawUpdateSaving ==
    /\ \E c \in Callers, id \in SavingIds, u \in Users, a \in RawAmounts :
          UpdateSaving("raw", c, id, u, a)
    /\ UNCHANGED clientVars

RawInsertProfile ==
    /\ \E c \in Callers, id \in Users,  n \in RawNames : InsertProfile("raw", c, id, n)
    /\ UNCHANGED clientVars

RawUpdateProfile ==
    /\ \E c \in Callers, id \in ProfileIds, newId \in Users,  n \in RawNames :
          UpdateProfile("raw", c, id, newId, n)
    /\ UNCHANGED clientVars

RawDeleteProfile ==
    /\ \E c \in Callers, id \in Users : DeleteProfile("raw", c, id)
    /\ UNCHANGED clientVars

RawSelect ==
    /\ \E c \in Callers :
          \/ lastOp' = Op("raw", "select", "savings", c, 0, None, <<>>, FALSE,
                          Len(SelectSavings(c)))
          \/ lastOp' = Op("raw", "select", "profiles", c, 0, None, <<>>, FALSE,
                          Len(SelectProfiles(c)))
    /\ UNCHANGED storeVars
    /\ UNCHANGED clientVars

AccountDeleted ==
    /\ \E u \in Users : DeleteAuthUser(u)
    /\ UNCHANGED clientVars

\* The other user's browser runs the same application: it creates its
\* profile at sign-up, adds savings and deletes its own.
OtherCreatesProfile ==
    /\ \E u \in Users : InsertProfile("other", u, u, <<"Alice">>)
    /\ UNCHANGED clientVars

OtherAddsSaving ==
    /\ \E u \in Users : InsertSaving("other", u, u, <<1>>, <<>>)
    /\ UNCHANGED clientVars

OtherDeletesSaving ==
    /\ \E row \in Range(savingsTable) : DeleteSaving("other", row.user_id, row.id)
    /\ UNCHANGED clientVars

-----------------------------------------------------------------------------
(* App and the auth provider *)

\* App renders SavingsTracker while it holds a session, AuthForm otherwise.
Mounted == ~appLoading /\ appSession

\* A loadData() call that has called supabase.auth.getUser() and awaits it.
\* cause: what called it, the effect at mount or the write of a handler.
NewLoad == [pc |-> "getUser", user |-> None, profilesData |-> <<>>,
            currentProfileData |-> <<>>, savingsData |-> <<>>,
            cause |-> [op |-> "mount", id |-> 0, count |-> 0]]

\* The loadData() call a handler makes after its statement op was accepted.
\* H: is the cause of a load kept (it is history, the code does not read it).
LoadAfter(op, H) ==
    IF H THEN [NewLoad EXCEPT !.cause = [op |-> op.op, id |-> op.id, count |-> op.count]]
    ELSE NewLoad

\* The component's state when App's rendering goes from was to now: a new
\* SavingsTracker starts from its useState defaults and its effect calls
\* loadData(); one that is removed loses its state, and what its calls in
\* flight set afterwards has no effect.
Render(was, now) ==
    IF was = now
    THEN UNCHANGED <<currentUser, profiles, savings, amount, description, loading, loads>>
    ELSE /\ currentUser' = <<>>
         /\ profiles' = <<>>
         /\ savings' = <<>>
         /\ amount' = <<>>
         /\ description' = <<>>
         /\ loading' = TRUE
         /\ loads' = IF now THEN <<NewLoad>> ELSE <<>>

\* The session of the supabase client starts (sign-in), ends (expiry, sign-out
\* elsewhere) or changes to another account, outside the component.
AuthSessionChange ==
    /\ authEvents < MaxAuthEvents
    /\ authEvents' = authEvents + 1
    /\ \E s \in authUsers \cup {None} :
          /\ s # session
          /\ session' = s
    /\ lastOp' = NoOp
    /\ UNCHANGED <<storeVars, appSession, appLoading, localVars, loads, shown>>

\* App: supabase.auth.getSession().then(...)
AppGetSession ==
    /\ appLoading
    /\ appSession' = (session # None)
    /\ appLoading' = FALSE
    /\ Render(FALSE, session # None)
    /\ lastOp' = NoOp
    /\ UNCHANGED <<storeVars, session, authEvents, shown>>

\* App: the onAuthStateChange callback
AppOnAuthStateChange ==
    /\ appSession # (session # None)
    /\ appSession' = (session # None)
    /\ Render(Mounted, ~appLoading /\ session # None)
    /\ lastOp' = NoOp
    /\ UNCHANGED <<storeVars, session, authEvents, appLoading, shown>>

-----------------------------------------------------------------------------
(* SavingsTracker: loadData *)

RemoveAt(q, i) == SubSeq(q, 1, i - 1) \o SubSeq(q, i + 1, Len(q))

\* supabase.auth.getUser(): the auth server's answer for the session's token.
getUser == IF session \in authUsers THEN session ELSE None

\* (mutant: the early return is taken before the try block, past `finally`)
LoadGetUser_NoFinally(i, F) ==
    /\ loads[i].pc = "getUser"
    /\ \E fail \in F :
          IF fail \/ getUser = None
          THEN loads' = RemoveAt(loads, i)
          ELSE loads' = [loads EXCEPT ![i].pc = "profiles", ![i].user = getUser]
    /\ lastOp' = NoOp
    /\ UNCHANGED <<storeVars, hostVars, currentUser, profiles, savings,
                   amount, description, loading>>

\* `await supabase.auth.getUser()` returns.  Without a user, or when the call
\* fails, loadData goes straight to `finally`.
LoadGetUser(i, F) ==
    /\ loads[i].pc = "getUser"
    /\ \E fail \in F :
          IF fail \/ getUser = None
          THEN /\ loading' = FALSE
               /\ loads' = RemoveAt(loads, i)
          ELSE /\ loads' = [loads EXCEPT ![i].pc = "profiles", ![i].user = getUser]
               /\ UNCHANGED loading
    /\ lastOp' = NoOp
    /\ UNCHANGED <<storeVars, hostVars, currentUser, profiles, savings,
                   amount, description>>

\* from('profiles').select('*').order('created_at'): data is null on failure
LoadReadProfiles(i, F) ==
    /\ loads[i].pc = "profiles"
    /\ \E fail \in F :
          loads' = [loads EXCEPT ![i].pc = "current",
                       ![i].profilesData = IF fail THEN <<>> ELSE <<SelectProfiles(session)>>]
    /\ lastOp' = NoOp
    /\ UNCHANGED <<storeVars, hostVars, localVars>>

\* from('profiles').select('*').eq('id', user.id).maybeSingle(): a row or null
LoadReadCurrentProfile(i, F) ==
    /\ loads[i].pc = "current"
    /\ \E fail \in F :
          loads' = [loads EXCEPT ![i].pc = "savings",
                       ![i].currentProfileData =
                           IF fail THEN <<>> ELSE SelectProfileById(session, loads[i].user)]
    /\ lastOp' = NoOp
    /\ UNCHANGED <<storeVars, hostVars, localVars>>

\* from('savings').select('*').order('created_at', { ascending: false })
LoadReadSavings(i, F) ==
    /\ loads[i].pc = "savings"
    /\ \E fail \in F :
          loads' = [loads EXCEPT ![i].pc = "apply",
                       ![i].savingsData = IF fail THEN <<>> ELSE <<SelectSavings(session)>>]
    /\ lastOp' = NoOp
    /\ UNCHANGED <<storeVars, hostVars, localVars>>

\* (mutant: the data of the three reads are set without looking at them)
LoadApply_Unguarded(i) ==
    LET l == loads[i]
        rows(d) == IF d # <<>> THEN d[1] ELSE <<>>
    IN  /\ l.pc = "apply"
        /\ profiles' = rows(l.profilesData)
        /\ currentUser' = l.currentProfileData
        /\ savings' = rows(l.savingsData)
        /\ loading' = FALSE
        /\ loads' = RemoveAt(loads, i)
        /\ lastOp' = NoOp
        /\ UNCHANGED <<storeVars, hostVars, amount, description>>

\* The three `if (data) set...(data)` and `finally { setLoading(false) }`
LoadApply(i) ==
    LET l == loads[i]
    IN  /\ l.pc = "apply"
        /\ profiles' = IF l.profilesData # <<>> THEN l.profilesData[1] ELSE profiles
        /\ currentUser' = IF l.currentProfileData # <<>> THEN l.currentProfileData
                          ELSE currentUser
        /\ savings' = IF l.savingsData # <<>> THEN l.savingsData[1] ELSE savings
        /\ loading' = FALSE
        /\ loads' = RemoveAt(loads, i)
        /\ lastOp' = NoOp
        /\ UNCHANGED <<storeVars, hostVars, amount, description>>

\* One step of one of the loadData() calls in flight.  F: can a call to the
\* auth server or the store fail ({FALSE}: no, BOOLEAN: it may).
loadData(F) ==
    \E i \in 1..Len(loads) :
        \/ LoadGetUser(i, F)
        \/ LoadReadProfiles(i, F)
        \/ LoadReadCurrentProfile(i, F)
        \/ LoadReadSavings(i, F)
        \/ LoadApply(i)

-----------------------------------------------------------------------------
(* SavingsTracker: the form and the handlers.  They are reachable once the  *)
(* component renders its page, i.e. once loading is false.                  *)

Interactive == Mounted /\ ~loading

\* onChange of the amount field
SetAmount ==
    /\ Interactive
    /\ \E raw \in AmountTexts : amount' = NumberInputValue(raw)
    /\ lastOp' = NoOp
    /\ UNCHANGED <<storeVars, hostVars, currentUser, profiles, savings,
                   description, loading, loads>>

\* onChange of the description field
SetDescription ==
    /\ Interactive
    /\ \E text \in DescriptionTexts : description' = text
    /\ lastOp' = NoOp
    /\ UNCHANGED <<storeVars, hostVars, currentUser, profiles, savings,
                   amount, loading, loads>>

\* A request that never reaches the store (network failure): an error comes back.
Failed(via, op, c) ==
    /\ lastOp' = Op(via, op, "savings", c, 0, None, <<>>, TRUE, 0)
    /\ UNCHANGED storeVars

\* (mutant: the error of the statement is not looked at)
Throws_Never(op) == FALSE

\* `if (error) throw error`: the handler goes to its catch block, which logs.
Throws(op) == op.error

\* (mutant: the guard does not look at the amount)
AddSavingReturns_NoAmount == currentUser = <<>>

\* The guard of handleAddSaving: `if (!currentUser || !amount) return`
AddSavingReturns == currentUser = <<>> \/ amount = <<>>

handleAddSaving(F, H) ==
    /\ Interactive
    /\ IF AddSavingReturns
       THEN /\ lastOp' = Op("handleAddSaving", "none", "none", session, 0, None, <<>>, FALSE, 0)
            /\ UNCHANGED <<storeVars, localVars, loads>>
       ELSE /\ \/ InsertSaving("handleAddSaving", session, currentUser[1].id,
                               parseFloat(amount), trim(description))
               \/ TRUE \in F /\ Failed("handleAddSaving", "insert", session)
            /\ IF Throws(lastOp')
               THEN UNCHANGED <<localVars, loads>>
               ELSE /\ Len(loads) < MaxLoads
                    /\ amount' = <<>>
                    /\ description' = <<>>
                    /\ loads' = Append(loads, LoadAfter(lastOp', H))
                    /\ UNCHANGED <<currentUser, profiles, savings, loading>>
    /\ UNCHANGED hostVars

\* The delete button is rendered on the rows of the list whose user_id is
\* currentUser's id (isOwner).
DeleteOffered(id) ==
    \E row \in Range(savings) :
        row.id = id /\ currentUser # <<>> /\ row.user_id = currentUser[1].id

handleDeleteSaving(F, H) ==
    /\ Interactive
    /\ \E id \in 1..MaxSavings :
          /\ DeleteOffered(id)
          /\ \/ DeleteSaving("handleDeleteSaving", session, id)
             \/ TRUE \in F /\ Failed("handleDeleteSaving", "delete", session)
    /\ IF Throws(lastOp')
       THEN UNCHANGED loads
       ELSE /\ Len(loads) < MaxLoads
            /\ loads' = Append(loads, LoadAfter(lastOp', H))
    /\ UNCHANGED <<hostVars, localVars>>

\* handleLogout: signOut(), then onLogout() makes App drop its session.
handleLogout ==
    /\ Interactive
    /\ session' = None
    /\ appSession' = FALSE
    /\ Render(TRUE, FALSE)
    /\ lastOp' = NoOp
    /\ UNCHANGED <<storeVars, authEvents, appLoading, shown>>

-----------------------------------------------------------------------------
(* SavingsTracker: aggregation *)

\* Number(saving.amount)
Number(x) == ToNumber(x)

\* rows.reduce((sum, saving) => sum + Number(saving.amount), sum)
RECURSIVE Reduce(_, _)
Reduce(rows, sum) ==
    IF rows = <<>> THEN sum
    ELSE Reduce(Tail(rows), NumAdd(sum, Number(Head(rows).amount)))

\* calculateTotal and calculateUserTotal, on a given list of savings
total(rows) == Reduce(rows, 0)
totalFor(rows, userId) == Reduce(SelectSeq(rows, LAMBDA s : s.user_id = userId), 0)

calculateTotal == total(savings)
calculateUserTotal(userId) == totalFor(savings, userId)

\* getProfileById: the profile, or undefined (<<>>)
getProfileById(userId) == SelectSeq(profiles, LAMBDA p : p.id = userId)

-----------------------------------------------------------------------------
(* Specification *)

\* The browser has no session and App has not rendered yet.
InitClient ==
    /\ session = None
    /\ authEvents = 0
    /\ appSession = FALSE
    /\ appLoading = TRUE
    /\ currentUser = <<>>
    /\ profiles = <<>>
    /\ savings = <<>>
    /\ amount = <<>>
    /\ description = <<>>
    /\ loading = TRUE
    /\ loads = <<>>
    /\ shown = <<>>

\* The migration has run and nobody has created a profile.
InitStore ==
    /\ authUsers = Users
    /\ profilesTable = <<>>
    /\ savingsTable = <<>>
    /\ nextId = 1
    /\ lastOp = NoOp
    /\ InitClient

\* Both users have signed up and created their profiles (the sign-up form is
\* the one that inserts them).
Init ==
    /\ authUsers = Users
    /\ profilesTable = <<Profile("U1", "Alice"), Profile("U2", "Bob")>>
    /\ savingsTable = <<>>
    /\ nextId = 1
    /\ lastOp = NoOp
    /\ InitClient

\* The application in one browser, with the other user's browser at work;
\* the auth server and the store answer every call.
Next ==
    \/ OtherAddsSaving
    \/ OtherDeletesSaving
    \/ AuthSessionChange
    \/ AppGetSession
    \/ AppOnAuthStateChange
    \/ loadData({FALSE})
    \/ SetAmount
    \/ SetDescription
    \/ handleAddSaving({FALSE}, FALSE)
    \/ handleDeleteSaving({FALSE}, FALSE)
    \/ handleLogout

Spec == Init /\ [][Next]_vars

\* The store under every statement any client can send.
NextStore ==
    \/ RawInsertSaving
    \/ RawDeleteSaving
    \/ RawUpdateSaving
    \/ RawInsertProfile
    \/ RawUpdateProfile
    \/ RawDeleteProfile
    \/ RawSelect
    \/ AccountDeleted

SpecStore == InitStore /\ [][NextStore]_vars

\* The browser already holds U1's session when the page opens.
InitSignedIn ==
    /\ authUsers = Users
    /\ profilesTable = <<Profile("U1", "Alice"), Profile("U2", "Bob")>>
    /\ savingsTable = <<>>
    /\ nextId = 1
    /\ lastOp = NoOp
    /\ session = "U1"
    /\ authEvents = 0
    /\ appSession = FALSE
    /\ appLoading = TRUE
    /\ currentUser = <<>>
    /\ profiles = <<>>
    /\ savings = <<>>
    /\ amount = <<>>
    /\ description = <<>>
    /\ loading = TRUE
    /\ loads = <<>>
    /\ shown = <<>>

\* The application in one browser when any call to the auth server or to the
\* store may fail (network, availability).
NextFail ==
    \/ OtherAddsSaving
    \/ AppGetSession
    \/ loadData(BOOLEAN)
    \/ SetAmount
    \/ handleAddSaving(BOOLEAN, FALSE)
    \/ handleDeleteSaving(BOOLEAN, FALSE)

SpecFail == InitSignedIn /\ [][NextFail]_vars

\* Every call a loadData() awaits is answered in the end, with data or with
\* an error.
SpecLive == SpecFail /\ WF_vars(loadData(BOOLEAN))

\* The application in one browser with nobody else at work and every call
\* answered; each load keeps what caused it.
NextSolo ==
    \/ AppGetSession
    \/ loadData({FALSE})
    \/ SetAmount
    \/ handleAddSaving({FALSE}, TRUE)
    \/ handleDeleteSaving({FALSE}, TRUE)

SpecSolo == InitSignedIn /\ [][NextSolo]_vars

\* U1 has signed up, created a profile and opens the page; U2 has an account
\* and has not created a profile yet.
InitJoin ==
    /\ authUsers = Users
    /\ profilesTable = <<Profile("U1", "Alice")>>
    /\ savingsTable = <<>>
    /\ nextId = 1
    /\ lastOp = NoOp
    /\ session = "U1"
    /\ authEvents = 0
    /\ appSession = FALSE
    /\ appLoading = TRUE
    /\ currentUser = <<>>
    /\ profiles = <<>>
    /\ savings = <<>>
    /\ amount = <<>>
    /\ description = <<>>
    /\ loading = TRUE
    /\ loads = <<>>
    /\ shown = <<>>

\* The page loads while the other user's browser creates their profile and
\* adds savings.
NextJoin ==
    \/ OtherCreatesProfile
    \/ OtherAddsSaving
    \/ AppGetSession
    \/ loadData({FALSE})

SpecJoin == InitJoin /\ [][NextJoin]_vars

-----------------------------------------------------------------------------
(* The aggregation functions on their own: any list of at most MaxRows     *)
(* savings, as the page shows its totals.                                  *)

Amounts == {1, 2, BigAmount}

SavingsLists ==
    UNION {{[i \in 1..n |-> Saving(i, f[i][1], f[i][2], <<>>)] :
               f \in [1..n -> Users \X Amounts]} : n \in 0..MaxRows}

InitAgg ==
    /\ authUsers = Users
    /\ profilesTable = <<Profile("U1", "Alice"), Profile("U2", "Bob")>>
    /\ savingsTable = <<>>
    /\ nextId = 1
    /\ lastOp = NoOp
    /\ session = "U1"
    /\ authEvents = 0
    /\ appSession = TRUE
    /\ appLoading = FALSE
    /\ currentUser = <<Profile("U1", "Alice")>>
    /\ profiles = profilesTable
    /\ savings \in SavingsLists
    /\ amount = <<>>
    /\ description = <<>>
    /\ loading = FALSE
    /\ loads = <<>>
    /\ shown = <<>>

\* The totals card: {formatCurrency(calculateTotal())} and, for each profile,
\* {formatCurrency(calculateUserTotal(profile.id))}
RenderTotals ==
    /\ shown = <<>>
    /\ shown' = <<[total |-> calculateTotal,
                   userTotal |-> [u \in {p.id : p \in Range(profiles)} |->
                                     calculateUserTotal(u)]]>>
    /\ UNCHANGED <<storeVars, lastOp, authVars, localVars, loads>>

NextAgg == RenderTotals

SpecAgg == InitAgg /\ [][NextAgg]_vars

-----------------------------------------------------------------------------
(* Properties of the store (SpecStore) *)

IsSavingsInsert(op) == op.op = "insert" /\ op.table = "savings"
IsSavingsUpdate(op) == op.op = "update" /\ op.table = "savings"
IsSavingsDelete(op) == op.op = "delete" /\ op.table = "savings"

\* C1: an insert into savings by an authenticated caller with the user_id of
\* somebody else is rejected and creates no row; every row that appears in
\* savings was inserted by the caller its user_id names.
C1_InsertOwnOnly ==
    [][ /\ (/\ IsSavingsInsert(lastOp')
            /\ lastOp'.caller \in Users
            /\ lastOp'.user_id # lastOp'.caller)
           => (lastOp'.error /\ lastOp'.count = 0 /\ savingsTable' = savingsTable)
        /\ \A r \in Range(savingsTable') :
              r.id \notin SavingIds =>
                 /\ IsSavingsInsert(lastOp')
                 /\ ~lastOp'.error
                 /\ lastOp'.id = r.id
                 /\ lastOp'.caller = r.user_id
      ]_vars

\* An authenticated caller has just tried to insert a saving, valid in every
\* other respect, under the other user's id, and got an error.
C1_Witness ==
    /\ IsSavingsInsert(lastOp)
    /\ lastOp.caller \in Users
    /\ lastOp.user_id \in ProfileIds \ {lastOp.caller}
    /\ lastOp.amount # <<>>
    /\ lastOp.amount[1] > 0
    /\ lastOp.error

\* C3: the user_id of a saving never changes; an update changes only rows that
\* belong to its caller, and one that would set user_id to somebody else
\* changes nothing.
C3_OwnershipFixed ==
    [][ /\ \A r \in Range(savingsTable), r2 \in Range(savingsTable') :
              r.id = r2.id => r.user_id = r2.user_id
        /\ IsSavingsUpdate(lastOp') =>
              /\ Len(savingsTable') = Len(savingsTable)
              /\ \A i \in 1..Len(savingsTable) :
                    savingsTable'[i] # savingsTable[i]
                       => savingsTable[i].user_id = lastOp'.caller
              /\ lastOp'.user_id # lastOp'.caller
                    => (savingsTable' = savingsTable /\ lastOp'.count = 0)
      ]_vars

\* A user has just tried to hand one of their own savings to the other user
\* (the row exists and the update is valid in every other respect): error.
C3_Witness ==
    /\ IsSavingsUpdate(lastOp)
    /\ lastOp.caller \in Users
    /\ lastOp.user_id \in ProfileIds \ {lastOp.caller}
    /\ lastOp.amount # <<>>
    /\ lastOp.amount[1] > 0
    /\ \E r \in Range(savingsTable) : r.id = lastOp.id /\ r.user_id = lastOp.caller
    /\ lastOp.error

\* C5: a caller that is not signed in reads no row of either table, and its
\* inserts, updates and deletes change nothing.
C5_AnonDenied ==
    [][ (lastOp'.via = "raw" /\ lastOp'.caller = None) =>
           /\ UNCHANGED storeVars
           /\ lastOp'.count = 0
           /\ (lastOp'.op = "insert" => lastOp'.error)
      ]_vars

\* A caller that is not signed in has just read savings while it has rows.
C5_Witness ==
    /\ lastOp.via = "raw"
    /\ lastOp.caller = None
    /\ lastOp.op = "select"
    /\ lastOp.table = "savings"
    /\ savingsTable # <<>>
    /\ lastOp.count = 0

AllAmountsPositive == \A r \in Range(savingsTable) : r.amount > 0

\* C7: every saving in the store has amount > 0; an insert with amount <= 0 is
\* rejected whoever sends it, creates no row and leaves the total unchanged.
C7_AmountPositive ==
    /\ AllAmountsPositive
    /\ [][ /\ AllAmountsPositive'
           /\ (/\ IsSavingsInsert(lastOp')
               /\ lastOp'.amount # <<>>
               /\ lastOp'.amount[1] <= 0)
              => /\ lastOp'.error
                 /\ lastOp'.count = 0
                 /\ savingsTable' = savingsTable
                 /\ total(savingsTable') = total(savingsTable)
         ]_vars

\* A user has just tried to insert a saving of amount 0 under their own id,
\* with savings already in the store, and got an error.
C7_Witness ==
    /\ IsSavingsInsert(lastOp)
    /\ lastOp.amount = <<0>>
    /\ lastOp.caller = lastOp.user_id
    /\ lastOp.user_id \in ProfileIds
    /\ savingsTable # <<>>
    /\ lastOp.error

\* C13: a delete of an id that is not in savings (already deleted, or never
\* there) affects no row, is no error and leaves the store as it is; a delete
\* repeated by the same caller for the same id changes nothing the second time.
C13_DeleteIdempotent ==
    [][ IsSavingsDelete(lastOp') =>
          /\ lastOp'.id \notin SavingIds =>
                /\ lastOp'.count = 0
                /\ ~lastOp'.error
                /\ UNCHANGED storeVars
          /\ (/\ IsSavingsDelete(lastOp)
              /\ lastOp.caller = lastOp'.caller
              /\ lastOp.id = lastOp'.id)
             => /\ lastOp'.count = 0
                /\ ~lastOp'.error
                /\ UNCHANGED storeVars
      ]_vars

\* A user has just asked to delete a saving that was in the store and is no
\* longer, with another saving still in the store.
C13_Witness ==
    /\ IsSavingsDelete(lastOp)
    /\ lastOp.caller \in Users
    /\ lastOp.id < nextId
    /\ lastOp.id \notin SavingIds
    /\ lastOp.count = 0
    /\ ~lastOp.error
    /\ savingsTable # <<>>

IsWrite(op) == op.via = "raw" /\ op.op \in {"insert", "update", "delete"}

\* C14: a delete gives its caller the same outcome (no error, no row
\* affected) when the id is not in savings and when it is the id of a saving
\* of another user; a write its policy does not allow changes nothing and
\* affects no row, and a write that affects no row changes nothing.
C14_DeniedLooksAbsent ==
    [][ /\ IsSavingsDelete(lastOp') =>
              \A absent \in BOOLEAN :
                 (IF absent THEN lastOp'.id \notin SavingIds
                  ELSE \E r \in Range(savingsTable) :
                          r.id = lastOp'.id /\ r.user_id # lastOp'.caller)
                 => /\ <<lastOp'.error, lastOp'.count>> = <<FALSE, 0>>
                    /\ UNCHANGED storeVars
        /\ (IsWrite(lastOp') /\ lastOp'.count = 0) => UNCHANGED storeVars
        /\ (/\ IsWrite(lastOp')
            /\ lastOp'.op \in {"insert", "update"}
            /\ lastOp'.user_id # lastOp'.caller)
           => (lastOp'.count = 0 /\ UNCHANGED storeVars)
        /\ (IsWrite(lastOp') /\ lastOp'.table = "savings" /\ lastOp'.op = "update") =>
              \A r \in Range(savingsTable) :
                 (r.id = lastOp'.id /\ r.user_id # lastOp'.caller)
                    => (<<lastOp'.error, lastOp'.count>> = <<FALSE, 0>> /\ UNCHANGED storeVars)
      ]_vars

\* A user has just asked to delete a saving of the other user: no error, no
\* row affected, and the saving is still in the store.
C14_Witness ==
    /\ lastOp.via = "raw"
    /\ IsSavingsDelete(lastOp)
    /\ lastOp.caller \in Users
    /\ \E r \in Range(savingsTable) : r.id = lastOp.id /\ r.user_id # lastOp.caller
    /\ ~lastOp.error
    /\ lastOp.count = 0

IsProfilesInsert(op) == op.op = "insert" /\ op.table = "profiles"
IsProfilesUpdate(op) == op.op = "update" /\ op.table = "profiles"

AtMostOneProfile ==
    \A i, j \in 1..Len(profilesTable) :
        profilesTable[i].id = profilesTable[j].id => i = j

\* C16, as claimed: every identity has exactly one profile, in every state of
\* the store.
C16_ExactlyOneProfile ==
    \A u \in authUsers :
        Cardinality({i \in 1..Len(profilesTable) : profilesTable[i].id = u}) = 1

\* C16, amended: every identity has at most one profile (none until it
\* creates it) and every profile is an identity's; a profile id appears in
\* the table only through an insert by the caller of that id, an insert or an
\* update that gives a row an id other than its caller's changes nothing, and
\* an update changes only the caller's own row and leaves its id the caller's.
C16_ProfileOwnId ==
    /\ AtMostOneProfile
    /\ ProfileIds \subseteq authUsers
    /\ [][ /\ AtMostOneProfile'
           /\ \A id \in {p.id : p \in Range(profilesTable')} \ ProfileIds :
                 /\ IsProfilesInsert(lastOp')
                 /\ ~lastOp'.error
                 /\ lastOp'.caller = id
           /\ (/\ IsProfilesInsert(lastOp') \/ IsProfilesUpdate(lastOp')
               /\ lastOp'.user_id # lastOp'.caller)
              => (profilesTable' = profilesTable /\ lastOp'.count = 0)
           /\ IsProfilesUpdate(lastOp') =>
                 /\ Len(profilesTable') = Len(profilesTable)
                 /\ \A i \in 1..Len(profilesTable) :
                       profilesTable'[i] # profilesTable[i] =>
                          /\ profilesTable[i].id = lastOp'.caller
                          /\ profilesTable'[i].id = lastOp'.caller
         ]_vars

\* A user who has a profile has just tried to give it the id of the other
\* user, who has none: the update is an error and the profile is as it was.
C16_Witness ==
    /\ IsProfilesUpdate(lastOp)
    /\ lastOp.caller \in ProfileIds
    /\ lastOp.user_id \in authUsers \ ProfileIds
    /\ lastOp.error

ReferencesHold == \A r \in Range(savingsTable) : r.user_id \in ProfileIds

\* C17: the user_id of every saving is the id of a profile in the store; an
\* insert of a saving whose user_id has no profile is rejected; a step that
\* removes a profile removes the savings of that profile, and only those, in
\* the same step.
C17_ReferencesHold ==
    /\ ReferencesHold
    /\ [][ /\ ReferencesHold'
           /\ (IsSavingsInsert(lastOp') /\ lastOp'.user_id \notin ProfileIds)
                 => (lastOp'.error /\ savingsTable' = savingsTable)
           /\ \A id \in ProfileIds \ {p.id : p \in Range(profilesTable')} :
                 savingsTable' = SelectSeq(savingsTable, LAMBDA r : r.user_id # id)
         ]_vars

\* An account that had savings has just been removed, with its profile and
\* those savings; the other user's savings are still in the store.
C17_Witness ==
    /\ lastOp.via = "auth"
    /\ lastOp.count > 0
    /\ lastOp.user_id \notin ProfileIds
    /\ savingsTable # <<>>

-----------------------------------------------------------------------------
(* Properties of the client (Spec) *)

\* The step is load i's read that takes it from pc `from` to pc `to`.
ReadStep(i, from, to) ==
    /\ Len(loads') = Len(loads)
    /\ loads[i].pc = from
    /\ loads'[i].pc = to

\* The step is load i's last one, from pc `from`.
EndStep(i, from) ==
    /\ loads[i].pc = from
    /\ loads' = RemoveAt(loads, i)
    /\ UNCHANGED authVars

SameRows(a, b) == Len(a) = Len(b) /\ Range(a) = Range(b)

\* C2: a delete that the client issues for a saving that is not the caller's
\* removes nothing and is no error: the table is unchanged and the reload
\* starts with the row still there.  A saving leaves the store only through a
\* delete by the user its user_id names, or with its profile.
C2_ForeignDeleteNoEffect ==
    [][ /\ \A r \in Range(savingsTable) :
              (/\ lastOp'.via = "handleDeleteSaving"
               /\ IsSavingsDelete(lastOp')
               /\ lastOp'.id = r.id
               /\ lastOp'.caller # r.user_id)
              => /\ savingsTable' = savingsTable
                 /\ lastOp'.count = 0
                 /\ ~lastOp'.error
                 /\ loads' = Append(loads, NewLoad)
        /\ \A r \in Range(savingsTable) :
              r.id \notin {x.id : x \in Range(savingsTable')} =>
                 \/ /\ IsSavingsDelete(lastOp')
                    /\ lastOp'.id = r.id
                    /\ lastOp'.caller = r.user_id
                 \/ r.user_id \notin {x.id : x \in Range(profilesTable')}
      ]_vars

\* The client, signed in as one user, has just asked to delete a saving of
\* the other user that is in the store: no row was affected.
C2_Witness ==
    /\ lastOp.via = "handleDeleteSaving"
    /\ IsSavingsDelete(lastOp)
    /\ lastOp.caller \in Users
    /\ \E r \in Range(savingsTable) : r.id = lastOp.id /\ r.user_id # lastOp.caller
    /\ lastOp.count = 0
    /\ loads # <<>>

\* C4: a signed-in client's reads return every row of profiles and of savings,
\* whoever owns it, and a load whose three reads returned data makes them the
\* local profiles and savings as they are.
C4_LoadsCompleteSets ==
    [][ \A i \in 1..Len(loads) :
          /\ (ReadStep(i, "profiles", "current") /\ session \in Users)
                => /\ loads'[i].profilesData # <<>>
                   /\ SameRows(loads'[i].profilesData[1], profilesTable)
          /\ (ReadStep(i, "savings", "apply") /\ session \in Users)
                => /\ loads'[i].savingsData # <<>>
                   /\ SameRows(loads'[i].savingsData[1], savingsTable)
          /\ (/\ EndStep(i, "apply")
              /\ loads[i].profilesData # <<>>
              /\ loads[i].currentProfileData # <<>>
              /\ loads[i].savingsData # <<>>)
                => /\ profiles' = loads[i].profilesData[1]
                   /\ savings' = loads[i].savingsData[1]
      ]_vars

\* A load has completed and the page lists the savings of both users, all
\* there are in the store.
C4_Witness ==
    /\ Interactive
    /\ loads = <<>>
    /\ currentUser # <<>>
    /\ SameRows(savings, savingsTable)
    /\ SameRows(profiles, profilesTable)
    /\ \A u \in Users : \E r \in Range(savings) : r.user_id = u

\* C6: with no authenticated identity (also after the session is lost), a
\* load leaves the local profiles and savings empty and addSaving submits
\* nothing.
C6_NoIdentityNoOp ==
    [][ /\ \A i \in 1..Len(loads) :
              (EndStep(i, "getUser") /\ getUser = None)
                 => (profiles' = <<>> /\ savings' = <<>>)
        /\ (lastOp'.via = "handleAddSaving" /\ getUser = None)
              => (lastOp'.op = "none" /\ UNCHANGED storeVars)
      ]_vars

PositiveParse(text) == parseFloat(text) # <<>> /\ parseFloat(text)[1] > 0

\* C9, as claimed: addSaving submits nothing and changes nothing whenever the
\* identity is not resolved or the amount does not parse to a positive number.
C9_NoOpUnlessPositive ==
    [][ (/\ lastOp'.via = "handleAddSaving"
         /\ (currentUser = <<>> \/ ~PositiveParse(amount)))
        => /\ lastOp'.op = "none"
           /\ UNCHANGED <<storeVars, localVars, loads>>
      ]_vars

\* C9, amended: addSaving submits nothing and changes nothing whenever there
\* is no current user or the amount field is empty; with a zero or negative
\* amount it submits the insert, which the store rejects: no row is created
\* and no local state changes.
C9_NoOpWhenEmpty ==
    [][ lastOp'.via = "handleAddSaving" =>
          /\ (currentUser = <<>> \/ amount = <<>>)
                => /\ lastOp'.op = "none"
                   /\ UNCHANGED <<storeVars, localVars, loads>>
          /\ (currentUser # <<>> /\ amount # <<>> /\ ~PositiveParse(amount))
                => /\ lastOp'.op = "insert"
                   /\ lastOp'.error
                   /\ lastOp'.count = 0
                   /\ UNCHANGED <<storeVars, localVars, loads>>
      ]_vars

\* The form has just been submitted with an amount of zero or less: the insert
\* went to the store and came back an error, and the field keeps its text.
C9_Witness ==
    /\ lastOp.via = "handleAddSaving"
    /\ lastOp.op = "insert"
    /\ lastOp.amount # <<>>
    /\ lastOp.amount[1] <= 0
    /\ lastOp.error
    /\ amount # <<>>

\* C10: every insert that addSaving submits carries the user_id of the
\* identity the session has when it is submitted.
C10_InsertCarriesCaller ==
    [][ (lastOp'.via = "handleAddSaving" /\ lastOp'.op = "insert")
           => lastOp'.user_id = lastOp'.caller
      ]_vars

-----------------------------------------------------------------------------
(* Properties of the aggregation functions (SpecAgg) *)

\* The subtotals of the users us, added up as the total is.
RECURSIVE SumOfSubtotals(_, _)
SumOfSubtotals(rows, us) ==
    IF us = {} THEN 0
    ELSE LET u == CHOOSE x \in us : TRUE
         IN  NumAdd(SumOfSubtotals(rows, us \ {u}), totalFor(rows, u))

\* C8: the total of a list of savings is the sum of the subtotals of the users
\* that have rows in it, and the subtotal of a user with no row is 0.
C8_SumLaw ==
    shown # <<>> =>
        LET present == {r.user_id : r \in Range(savings)}
        IN  /\ shown[1].total = SumOfSubtotals(savings, present)
            /\ \A u \in Users \ present : shown[1].userTotal[u] = 0

-----------------------------------------------------------------------------
(* Properties of the client when calls may fail (SpecFail) *)

IsHandler(op) == op.via \in {"handleAddSaving", "handleDeleteSaving"}

\* C11: when the store answers addSaving or deleteSaving with an error
\* (constraint violation, policy denial, or the request failing on its way),
\* the local profiles, savings, current user, amount and description stay as
\* they are, no reload starts, and the statement is not sent again: the store
\* is as it was.
C11_ErrorLeavesLocalState ==
    [][ (IsHandler(lastOp') /\ lastOp'.error)
           => UNCHANGED <<storeVars, localVars, loads>>
      ]_vars

\* A delete of one of the user's own savings has just failed on its way: the
\* saving is still in the store and in the list, and no load is in flight.
C11_Witness ==
    /\ lastOp.via = "handleDeleteSaving"
    /\ lastOp.error
    /\ \E r \in Range(savings) : r \in Range(savingsTable) /\ r.user_id = session
    /\ loads = <<>>

\* C15: a read of loadData that fails (or gives no data) leaves the value it
\* is for as it was and does not stop the load: the next reads are made, and
\* when the load completes each value whose read gave data is set to that
\* data and each of the others is unchanged.  A load that gets no user sets
\* none of them.
C15_ReadFailureKeepsState ==
    [][ \A i \in 1..Len(loads) :
          /\ (Len(loads') = Len(loads) /\ loads'[i] # loads[i]) =>
                /\ loads[i].pc = "profiles" => loads'[i].pc = "current"
                /\ loads[i].pc = "current" => loads'[i].pc = "savings"
                /\ loads[i].pc = "savings" => loads'[i].pc = "apply"
          /\ EndStep(i, "apply") =>
                /\ profiles' = IF loads[i].profilesData = <<>> THEN profiles
                               ELSE loads[i].profilesData[1]
                /\ currentUser' = IF loads[i].currentProfileData = <<>> THEN currentUser
                                  ELSE loads[i].currentProfileData
                /\ savings' = IF loads[i].savingsData = <<>> THEN savings
                              ELSE loads[i].savingsData[1]
          /\ EndStep(i, "getUser") => UNCHANGED <<profiles, currentUser, savings>>
      ]_vars

\* A reload's read of savings has failed after its read of profiles gave
\* data, while the page lists savings and the store has one more: the reload
\* is about to complete.
C15_Witness ==
    \E i \in 1..Len(loads) :
        /\ loads[i].pc = "apply"
        /\ loads[i].profilesData # <<>>
        /\ loads[i].savingsData = <<>>
        /\ savings # <<>>
        /\ Len(savingsTable) > Len(savings)

-----------------------------------------------------------------------------
(* Properties of the reloads (SpecSolo) *)

Ids(rows) == {r.id : r \in Range(rows)}

\* The step is a handler's whose statement the store accepted.
Accepted(op) == IsHandler(op) /\ op.op # "none" /\ ~op.error

\* C12, as claimed: a write the store accepts starts a reload (an insert also
\* clears the fields), and when that reload completes the local savings has
\* the row just inserted, respectively no longer has the row just deleted.
C12_ReloadShowsWrite ==
    [][ /\ Accepted(lastOp') =>
              /\ loads' = Append(loads, LoadAfter(lastOp', TRUE))
              /\ lastOp'.op = "insert" => (amount' = <<>> /\ description' = <<>>)
        /\ \A i \in 1..Len(loads) :
              EndStep(i, "apply") =>
                 /\ loads[i].cause.op = "insert" => loads[i].cause.id \in Ids(savings')
                 /\ (loads[i].cause.op = "delete" /\ loads[i].cause.count = 1)
                       => loads[i].cause.id \notin Ids(savings')
      ]_vars

\* C12, amended: a write the store accepts starts a reload (an insert also
\* clears the fields); the reload reads savings after the write, and as a
\* signed-in caller it gets the row just inserted unless that row has been
\* deleted since, and never the row just deleted; when it completes, the local
\* savings is what it read and the local total is the total of that.
C12_ReloadShowsStore ==
    [][ /\ Accepted(lastOp') =>
              /\ loads' = Append(loads, LoadAfter(lastOp', TRUE))
              /\ lastOp'.op = "insert" => (amount' = <<>> /\ description' = <<>>)
        /\ \A i \in 1..Len(loads) :
              /\ (ReadStep(i, "savings", "apply") /\ session \in Users) =>
                    /\ loads'[i].savingsData # <<>>
                    /\ loads[i].cause.op = "insert" =>
                          (loads[i].cause.id \in Ids(loads'[i].savingsData[1])
                             <=> loads[i].cause.id \in SavingIds)
                    /\ (loads[i].cause.op = "delete" /\ loads[i].cause.count = 1)
                          => loads[i].cause.id \notin Ids(loads'[i].savingsData[1])
              /\ (EndStep(i, "apply") /\ loads[i].savingsData # <<>>) =>
                    /\ savings' = loads[i].savingsData[1]
                    /\ calculateTotal' = total(loads[i].savingsData[1])
      ]_vars

\* The reload that followed the insert of the second saving has read savings
\* and got that row, and the amount field is empty.
C12_Witness ==
    \E i \in 1..Len(loads) :
        /\ loads[i].pc = "apply"
        /\ loads[i].cause.op = "insert"
        /\ loads[i].cause.id = 2
        /\ loads[i].cause.id \in Ids(loads[i].savingsData[1])
        /\ amount = <<>>

\* C18: when no loadData() call is in flight (every reload has completed, with
\* no read failure, and nobody else has written), the local savings is the
\* store's savings: an earlier reload does not overwrite what a later one read.
C18_NoStaleView ==
    (Mounted /\ loads = <<>>) => savings = SelectSavings(session)

-----------------------------------------------------------------------------
(* Properties of the loaded view (SpecJoin) *)

\* C19: when a loadData() call completes, the user_id of every saving in the
\* local savings is the id of a profile in the local profiles, and the
\* subtotals of the local profiles add up to the total.
C19_ViewConsistent ==
    [][ \A i \in 1..Len(loads) :
          EndStep(i, "apply") =>
             /\ \A r \in Range(savings') : getProfileById(r.user_id)' # <<>>
             /\ calculateTotal' = SumOfSubtotals(savings', {p.id : p \in Range(profiles')})
      ]_vars

-----------------------------------------------------------------------------
(* Properties of the loading flag (SpecLive) *)

\* C20: a loadData() call leaves loading false when it ends, whether it got
\* no user, made its three reads, or had calls fail; no step of a mounted
\* component sets loading back to true; and while loading is true it becomes
\* false in the end.
C20_LoadingEnds ==
    /\ [][ /\ \A i \in 1..Len(loads) :
                (EndStep(i, "getUser") \/ EndStep(i, "apply")) => ~loading'
           /\ (Mounted /\ Mounted' /\ ~loading) => ~loading'
         ]_vars
    /\ ((Mounted /\ loading) ~> ~loading)

\* The first load has ended without a user or with every read failed: nothing
\* is loaded, no load is in flight and the page is shown.
C20_Witness ==
    /\ Mounted
    /\ ~loading
    /\ loads = <<>>
    /\ profiles = <<>>
    /\ currentUser = <<>>
    /\ nextId = 1

=============================================================================
